---- MODULE Spec2Model ----
(***************************************************************************)
(* afpack: lifecycle of an ASIF disk image that replaces an artifact       *)
(* directory.  The module models                                           *)
(*   - src/src/diskimage.rs: the option records, the size validator and    *)
(*     the command adapter (attach, create_blank, create_from, resize,     *)
(*     detach) as operators over a small file system and the outcome of    *)
(*     the external `diskutil` process;                                    *)
(*   - src/src/main.rs: main, create_asif_image and apply_compression as   *)
(*     a sequential program with a program counter.                        *)
(* Spec is one run of the binary; AdapterSpec is one call of a public      *)
(* adapter function of the library crate with arbitrary options.           *)
(***************************************************************************)
EXTENDS Integers, Sequences, FiniteSets, TLC

VARIABLES
    cli,        \* the parsed command line (struct Cli)
    DRY_RUN,    \* OnceLock<bool>
    VERBOSE,    \* OnceLock<bool>
    fs,         \* path -> what is on disk there
    fs0,        \* the file system when the process (or the call) started
    mounts,     \* the images attached by the disk utility
    compressed, \* paths the compression engine has rewritten in place
    log,        \* everything the process did, in order
    pc,         \* position in main / create_asif_image
    ret,        \* the Result of the last adapter call
    call,       \* the adapter call of AdapterSpec
    exitCode    \* process exit status once terminated

vars == <<cli, DRY_RUN, VERBOSE, fs, fs0, mounts, compressed, log, pc, ret, call, exitCode>>

----------------------------------------------------------------------------
(* Bounds *)

\* longest size string drawn for --maxsize / options.size
MaxSizeLen == 2

----------------------------------------------------------------------------
(* Values *)

None == [some |-> FALSE]
Some(v) == [some |-> TRUE, v |-> v]

Ok(s) == [ok |-> TRUE, val |-> s]
Err(e) == [ok |-> FALSE, err |-> e]

CommandFailed(msg) == [kind |-> "CommandFailed", msg |-> msg]
InvalidPath(path) == [kind |-> "InvalidPath", msg |-> path]
InvalidSize(size) == [kind |-> "InvalidSize", msg |-> size]
DiskutilNotFound == [kind |-> "DiskutilNotFound"]

\* the characters size strings are drawn from
SizeAlphabet == {"1", "G", "g", "b", "x"}

RECURSIVE StringsUpTo(_)
StringsUpTo(n) ==
    IF n = 0 THEN {""}
    ELSE LET shorter == StringsUpTo(n - 1)
         IN shorter \cup {s \o c : s \in shorter, c \in SizeAlphabet}

SizeStrings == StringsUpTo(MaxSizeLen)

\* the artifact directory and the paths derived from it
ArtifactDirs == {"deps"}
CompressSelectors == {"none", "lzfse", "lzvn", "zlib", "brotli"}

----------------------------------------------------------------------------
(* Strings *)

UpperCase == <<"A","B","C","D","E","F","G","H","I","J","K","L","M",
               "N","O","P","Q","R","S","T","U","V","W","X","Y","Z">>
LowerCase == <<"a","b","c","d","e","f","g","h","i","j","k","l","m",
               "n","o","p","q","r","s","t","u","v","w","x","y","z">>
Digits == {"0","1","2","3","4","5","6","7","8","9"}

char_to_lowercase(c) ==
    IF \E i \in 1..26 : UpperCase[i] = c
    THEN LowerCase[CHOOSE i \in 1..26 : UpperCase[i] = c]
    ELSE c

RECURSIVE to_lowercase(_)
to_lowercase(s) ==
    IF Len(s) = 0 THEN ""
    ELSE char_to_lowercase(SubSeq(s, 1, 1)) \o to_lowercase(SubSeq(s, 2, Len(s)))

ends_with(s, suffix) ==
    /\ Len(s) >= Len(suffix)
    /\ SubSeq(s, Len(s) - Len(suffix) + 1, Len(s)) = suffix

all_ascii_digit(s) == \A i \in 1..Len(s) : SubSeq(s, i, i) \in Digits

\* is_valid_size that compares the suffixes with the string as written
is_valid_size_case_sensitive(size) ==
    \/ ends_with(size, "b")
    \/ ends_with(size, "kb")
    \/ ends_with(size, "mb")
    \/ ends_with(size, "gb")
    \/ ends_with(size, "tb")
    \/ ends_with(size, "k")
    \/ ends_with(size, "m")
    \/ ends_with(size, "g")
    \/ ends_with(size, "t")
    \/ all_ascii_digit(size)

is_valid_size(size) ==
    LET size_lower == to_lowercase(size)
    IN \/ ends_with(size_lower, "b")
       \/ ends_with(size_lower, "kb")
       \/ ends_with(size_lower, "mb")
       \/ ends_with(size_lower, "gb")
       \/ ends_with(size_lower, "tb")
       \/ ends_with(size_lower, "k")
       \/ ends_with(size_lower, "m")
       \/ ends_with(size_lower, "g")
       \/ ends_with(size_lower, "t")
       \/ all_ascii_digit(size)

FormatDisplay(f) ==
    CASE f = "RAW" -> "RAW"
      [] f = "ASIF" -> "ASIF"
      [] f = "UDSB" -> "UDSB"

\* FileSystemDisplay that prints the name of the variant
FileSystemDisplay_of_identifier(f) ==
    CASE f = "APFS" -> "APFS"
      [] f = "ExFAT" -> "ExFAT"
      [] f = "MSDOS" -> "MSDOS"
      [] f = "None" -> "None"

FileSystemDisplay(f) ==
    CASE f = "APFS" -> "APFS"
      [] f = "ExFAT" -> "ExFAT"
      [] f = "MSDOS" -> "MS-DOS"
      [] f = "None" -> "None"

Formats == {"RAW", "ASIF", "UDSB"}
FileSystems == {"APFS", "ExFAT", "MSDOS", "None"}

\* format!("{:?}", cmd): every word of the command in double quotes
RECURSIVE DebugCommand(_)
DebugCommand(argv) ==
    IF Len(argv) = 0 THEN ""
    ELSE IF Len(argv) = 1 THEN "\"" \o argv[1] \o "\""
    ELSE "\"" \o argv[1] \o "\" " \o DebugCommand(Tail(argv))

----------------------------------------------------------------------------
(* Option records *)

AttachOptions_default ==
    [mount_point |-> None, readonly |-> FALSE, nobrowse |-> FALSE,
     verbose |-> FALSE, dry_run |-> FALSE]

AttachOptions_new == AttachOptions_default

AttachOptions_with_mount_point(self, mount_point) ==
    [self EXCEPT !.mount_point = Some(mount_point)]

AttachOptions_with_verbose(self, verbose) == [self EXCEPT !.verbose = verbose]

AttachOptions_with_dry_run(self, dry_run) == [self EXCEPT !.dry_run = dry_run]

CreateBlankOptions_new(size, filesystem, format) ==
    [size |-> size, fs |-> filesystem, format |-> format,
     dry_run |-> FALSE, verbose |-> FALSE]

CreateBlankOptions_with_dry_run(self, dry_run) == [self EXCEPT !.dry_run = dry_run]

CreateBlankOptions_with_verbose(self, verbose) == [self EXCEPT !.verbose = verbose]

Format_default == "ASIF"

FileSystem_default == "APFS"

\* CreateBlankOptions_default with the file system left to FileSystem::default()
CreateBlankOptions_default_of_defaults ==
    [size |-> "1GB", fs |-> FileSystem_default, format |-> Format_default,
     dry_run |-> FALSE, verbose |-> FALSE]

CreateBlankOptions_default ==
    [size |-> "1GB", fs |-> "None", format |-> Format_default,
     dry_run |-> FALSE, verbose |-> FALSE]

CreateFromOptions_default ==
    [format |-> Format_default, dry_run |-> FALSE, verbose |-> FALSE]

AttachOptions_readonly(self) == [self EXCEPT !.readonly = TRUE]

AttachOptions_nobrowse(self) == [self EXCEPT !.nobrowse = TRUE]

AttachOptions_verbose(self) == [self EXCEPT !.verbose = TRUE]

CreateFromOptions_new(format) ==
    [format |-> format, dry_run |-> FALSE, verbose |-> FALSE]

CreateFromOptions_with_dry_run(self, dry_run) == [self EXCEPT !.dry_run = dry_run]

CreateFromOptions_with_verbose(self, verbose) == [self EXCEPT !.verbose = verbose]

ResizeOptions_new(size) == [size |-> size, dry_run |-> FALSE, verbose |-> FALSE]

ResizeOptions_with_dry_run(self, dry_run) == [self EXCEPT !.dry_run = dry_run]

\* ResizeOptions_with_verbose copied from with_dry_run, the field not renamed
ResizeOptions_with_verbose_of_dry_run(self, verbose) ==
    [self EXCEPT !.dry_run = verbose]

ResizeOptions_with_verbose(self, verbose) == [self EXCEPT !.verbose = verbose]

----------------------------------------------------------------------------
(* The world outside the process *)

\* Path::exists
exists(f, path) == f[path] # "absent"

\* What one run of an external step can turn out to be: create_dir_all
\* succeeds or not, the utility is launched or not, exits 0 or not.
Outcomes ==
    [mkdir : {"ok", "err"}, launched : BOOLEAN, code : {0, 1},
     stdout : {"disk4"}, stderr : {"denied"}]

succeeded(o) == o.launched /\ o.code = 0

\* The utility cannot report success on an image or a source that is not there.
UtilityOutcomes(verb, target, f) ==
    {o \in Outcomes :
        succeeded(o) =>
            CASE verb = "attach" -> f[target] = "image"
              [] verb = "resize" -> f[target] = "image"
              [] verb = "create from" -> exists(f, target)
              [] OTHER -> TRUE}

\* output that takes a process that never started for one that ran, and
\* reports standard output in the failure
output_without_launch_check(o) ==
    IF o.code # 0 THEN Err(CommandFailed(o.stdout))
    ELSE Ok(o.stdout)

\* cmd.output() and the translation of its result, the same in every verb
output(o) ==
    IF ~o.launched THEN Err(DiskutilNotFound)
    ELSE IF o.code # 0 THEN Err(CommandFailed(o.stderr))
    ELSE Ok(o.stdout)

spawn(argv, o) ==
    [ev |-> "spawn", argv |-> argv, launched |-> o.launched, code |-> o.code,
     stdout |-> o.stdout, stderr |-> o.stderr]

println(text) == [ev |-> "println", text |-> text]

----------------------------------------------------------------------------
(* Command adapter.  Each operator gives the Result, the file system and   *)
(* the mounts after the call, and the events of the call in order.         *)

\* attach_argv that hands the readonly and nobrowse fields to the utility
attach_argv_passing_readonly(image_path, options) ==
    <<"diskutil", "image", "attach">>
      \o (IF options.mount_point.some
          THEN <<"--mountPoint", options.mount_point.v>> ELSE <<>>)
      \o (IF options.readonly THEN <<"--readOnly">> ELSE <<>>)
      \o (IF options.nobrowse THEN <<"--noBrowse">> ELSE <<>>)
      \o (IF options.verbose THEN <<"--verbose">> ELSE <<>>)
      \o <<image_path>>

attach_argv(image_path, options) ==
    <<"diskutil", "image", "attach">>
      \o (IF options.mount_point.some
          THEN <<"--mountPoint", options.mount_point.v>> ELSE <<>>)
      \o (IF options.verbose THEN <<"--verbose">> ELSE <<>>)
      \o <<image_path>>

\* attach_creates_dir without the test of dry_run
attach_creates_dir_in_dry_run(options, f) ==
    /\ options.mount_point.some
    /\ ~exists(f, options.mount_point.v)

\* attach_creates_dir that leaves the mount point to the utility
attach_creates_dir_never(options, f) == FALSE

attach_creates_dir(options, f) ==
    /\ options.mount_point.some
    /\ ~exists(f, options.mount_point.v)
    /\ ~options.dry_run

attach(image_path, options, f, m, o) ==
    LET argv == attach_argv(image_path, options)
        mk == attach_creates_dir(options, f)
        mkev == IF mk
                THEN <<[ev |-> "create_dir_all", path |-> options.mount_point.v,
                        ok |-> (o.mkdir = "ok")]>>
                ELSE <<>>
        f1 == IF mk /\ o.mkdir = "ok"
              THEN [f EXCEPT ![options.mount_point.v] = "emptydir"] ELSE f
        cmd_str == DebugCommand(argv)
    IN  IF mk /\ o.mkdir = "err"
        THEN [ret |-> Err(CommandFailed("create_dir_all")), fs |-> f, mounts |-> m,
              ev |-> mkev]
        ELSE IF options.dry_run
        THEN [ret |-> Ok("[DRY RUN] Command: " \o cmd_str), fs |-> f1, mounts |-> m,
              ev |-> mkev \o <<println("[DRY RUN] Would execute: " \o cmd_str)>>]
        ELSE [ret |-> output(o), fs |-> f1,
              mounts |-> IF succeeded(o)
                         THEN m \cup {[image |-> image_path,
                                       mount_point |-> options.mount_point]}
                         ELSE m,
              ev |-> mkev \o <<spawn(argv, o)>>]

create_blank(image_path, options, f, m, o) ==
    LET cmd_str == "diskutil image create blank --fs "
                     \o to_lowercase(FileSystemDisplay(options.fs))
                     \o " --format " \o FormatDisplay(options.format)
                     \o " --size " \o options.size \o " " \o image_path
        argv == <<"diskutil", "image", "create", "blank",
                  "--fs", to_lowercase(FileSystemDisplay(options.fs)),
                  "--format", FormatDisplay(options.format),
                  "--size", options.size, image_path>>
    IN  IF ~is_valid_size(options.size)
        THEN [ret |-> Err(InvalidSize(options.size)), fs |-> f, mounts |-> m,
              ev |-> <<>>]
        ELSE IF options.dry_run
        THEN [ret |-> Ok("[DRY RUN] Command: " \o cmd_str), fs |-> f, mounts |-> m,
              ev |-> <<println("[DRY RUN] Would execute: " \o cmd_str)>>]
        ELSE [ret |-> output(o),
              fs |-> IF succeeded(o) THEN [f EXCEPT ![image_path] = "image"] ELSE f,
              mounts |-> m,
              ev |-> <<spawn(argv, o)>>]

\* create_from with the source checked ahead of the dry-run short-circuit
create_from_checking_first(source, dest, options, f, m, o) ==
    LET cmd_str == "diskutil image create from --format "
                     \o FormatDisplay(options.format)
                     \o " " \o source \o " " \o dest
        argv == <<"diskutil", "image", "create", "from",
                  "--format", FormatDisplay(options.format), source, dest>>
    IN  IF ~exists(f, source)
        THEN [ret |-> Err(InvalidPath(source)), fs |-> f, mounts |-> m, ev |-> <<>>]
        ELSE IF options.dry_run
        THEN [ret |-> Ok("[DRY RUN] Command: " \o cmd_str), fs |-> f, mounts |-> m,
              ev |-> <<println("[DRY RUN] Would execute: " \o cmd_str)>>]
        ELSE [ret |-> output(o),
              fs |-> IF succeeded(o) THEN [f EXCEPT ![dest] = "image"] ELSE f,
              mounts |-> m,
              ev |-> <<spawn(argv, o)>>]

create_from(source, dest, options, f, m, o) ==
    LET cmd_str == "diskutil image create from --format "
                     \o FormatDisplay(options.format)
                     \o " " \o source \o " " \o dest
        argv == <<"diskutil", "image", "create", "from",
                  "--format", FormatDisplay(options.format), source, dest>>
    IN  IF options.dry_run
        THEN [ret |-> Ok("[DRY RUN] Command: " \o cmd_str), fs |-> f, mounts |-> m,
              ev |-> <<println("[DRY RUN] Would execute: " \o cmd_str)>>]
        ELSE IF ~exists(f, source)
        THEN [ret |-> Err(InvalidPath(source)), fs |-> f, mounts |-> m, ev |-> <<>>]
        ELSE [ret |-> output(o),
              fs |-> IF succeeded(o) THEN [f EXCEPT ![dest] = "image"] ELSE f,
              mounts |-> m,
              ev |-> <<spawn(argv, o)>>]

\* resize with the dry-run short-circuit ahead of the size validation
resize_dry_run_first(image_path, options, f, m, o) ==
    LET cmd_str == "diskutil image resize --size " \o options.size
                     \o " " \o image_path
        argv == <<"diskutil", "image", "resize", "--size", options.size, image_path>>
    IN  IF options.dry_run
        THEN [ret |-> Ok("[DRY RUN] Command: " \o cmd_str), fs |-> f, mounts |-> m,
              ev |-> <<println("[DRY RUN] Would execute: " \o cmd_str)>>]
        ELSE IF ~is_valid_size(options.size)
        THEN [ret |-> Err(InvalidSize(options.size)), fs |-> f, mounts |-> m,
              ev |-> <<>>]
        ELSE IF ~exists(f, image_path)
        THEN [ret |-> Err(InvalidPath(image_path)), fs |-> f, mounts |-> m,
              ev |-> <<>>]
        ELSE [ret |-> output(o), fs |-> f, mounts |-> m,
              ev |-> <<spawn(argv, o)>>]

resize(image_path, options, f, m, o) ==
    LET cmd_str == "diskutil image resize --size " \o options.size
                     \o " " \o image_path
        argv == <<"diskutil", "image", "resize", "--size", options.size, image_path>>
    IN  IF ~is_valid_size(options.size)
        THEN [ret |-> Err(InvalidSize(options.size)), fs |-> f, mounts |-> m,
              ev |-> <<>>]
        ELSE IF options.dry_run
        THEN [ret |-> Ok("[DRY RUN] Command: " \o cmd_str), fs |-> f, mounts |-> m,
              ev |-> <<println("[DRY RUN] Would execute: " \o cmd_str)>>]
        ELSE IF ~exists(f, image_path)
        THEN [ret |-> Err(InvalidPath(image_path)), fs |-> f, mounts |-> m,
              ev |-> <<>>]
        ELSE [ret |-> output(o), fs |-> f, mounts |-> m,
              ev |-> <<spawn(argv, o)>>]

detach(mount_point, f, m, o) ==
    LET argv == <<"diskutil", "unmount", mount_point>>
    IN  [ret |-> output(o), fs |-> f,
         mounts |-> IF succeeded(o)
                    THEN {x \in m : x.mount_point # Some(mount_point)} ELSE m,
         ev |-> <<spawn(argv, o)>>]

----------------------------------------------------------------------------
(* main.rs *)

is_dry_run == IF DRY_RUN.some THEN DRY_RUN.v ELSE FALSE
is_verbose == IF VERBOSE.some THEN VERBOSE.v ELSE FALSE

afdir == cli.afdir.v
\* format!("{}.asif", afdir)
asif_path == afdir \o ".asif"

Paths == ArtifactDirs \cup {d \o ".asif" : d \in ArtifactDirs}

called(op, args, options) ==
    [ev |-> "call", op |-> op, args |-> args, options |-> options]

Kind_default == "default"

compression_kind(compress) ==
    CASE compress = "lzfse" -> "Lzfse"
      [] compress = "lzvn" -> "Lzvn"
      [] compress = "zlib" -> "Zlib"
      [] OTHER -> Kind_default

\* FileCompressor::recursive_compress over one root: files under an existing
\* root are rewritten in place, a missing root is reported to the progress sink
recursive_compress_event(path, kind) ==
    [ev |-> "recursive_compress", path |-> path, kind |-> kind]

recursive_compress(path, done) ==
    IF exists(fs, path) THEN done \cup {path} ELSE done

exit(code) ==
    /\ pc' = "exited"
    /\ exitCode' = Some(code)

\* Main_parse without the two OnceLock::set calls
Main_parse_without_set ==
    /\ pc = "main"
    /\ pc' = "compat"
    /\ UNCHANGED <<cli, fs0, DRY_RUN, VERBOSE, fs, mounts, compressed, log, ret,
                   call, exitCode>>

\* Cli::parse and the two OnceLock::set calls
Main_parse ==
    /\ pc = "main"
    /\ DRY_RUN' = Some(cli.dry_run)
    /\ VERBOSE' = Some(cli.verbose)
    /\ pc' = "compat"
    /\ UNCHANGED <<cli, fs0, fs, mounts, compressed, log, ret, call, exitCode>>

\* sw_vers could not be run, printed nothing, or printed a version
check_macos_compatibility(sw_vers) ==
    IF sw_vers = "failed" THEN FALSE ELSE sw_vers # ""

Main_compat ==
    /\ pc = "compat"
    /\ \E sw_vers \in {"failed", "", "26.0"} :
         IF ~check_macos_compatibility(sw_vers)
         THEN /\ exit(1)
              /\ log' = Append(log, [ev |-> "exit", code |-> 1])
         ELSE /\ pc' = "afdir"
              /\ UNCHANGED <<log, exitCode>>
    /\ UNCHANGED <<cli, fs0, DRY_RUN, VERBOSE, fs, mounts, compressed, ret, call>>

\* Main_afdir without the test that the image is already there
Main_afdir_always_creating ==
    /\ pc = "afdir"
    /\ IF ~cli.afdir.some
       THEN /\ exit(1)
            /\ log' = Append(log, [ev |-> "exit", code |-> 1])
       ELSE /\ pc' = "create"
            /\ UNCHANGED <<log, exitCode>>
    /\ UNCHANGED <<cli, fs0, DRY_RUN, VERBOSE, fs, mounts, compressed, ret, call>>

Main_afdir ==
    /\ pc = "afdir"
    /\ IF ~cli.afdir.some
       THEN /\ exit(1)
            /\ log' = Append(log, [ev |-> "exit", code |-> 1])
       ELSE /\ pc' = IF ~exists(fs, asif_path) THEN "create" ELSE "attach"
            /\ UNCHANGED <<log, exitCode>>
    /\ UNCHANGED <<cli, fs0, DRY_RUN, VERBOSE, fs, mounts, compressed, ret, call>>

\* create_asif_image, the branch of a missing artifact directory
Create_blank ==
    /\ pc = "create"
    /\ ~exists(fs, afdir)
    /\ \E o \in UtilityOutcomes("create blank", asif_path, fs) :
         LET create_options ==
                 CreateBlankOptions_with_verbose(
                     CreateBlankOptions_with_dry_run(
                         CreateBlankOptions_new(cli.maxsize, "APFS", "ASIF"),
                         is_dry_run),
                     is_verbose)
             r == create_blank(asif_path, create_options, fs, mounts, o)
         IN  /\ ret' = r.ret
             /\ fs' = r.fs
             /\ mounts' = r.mounts
             /\ log' = log \o <<called("create_blank", <<asif_path>>, create_options)>>
                           \o r.ev
    /\ pc' = "created"
    /\ UNCHANGED <<cli, fs0, DRY_RUN, VERBOSE, compressed, call, exitCode>>

\* Create_from that goes on to the compression when create_from failed
Create_from_without_question_mark ==
    /\ pc = "create"
    /\ exists(fs, afdir)
    /\ \E o \in UtilityOutcomes("create from", afdir, fs) :
         LET create_options ==
                 CreateFromOptions_with_verbose(
                     CreateFromOptions_with_dry_run(
                         CreateFromOptions_new("ASIF"), is_dry_run),
                     is_verbose)
             r == create_from(afdir, asif_path, create_options, fs, mounts, o)
         IN  /\ ret' = r.ret
             /\ fs' = r.fs
             /\ mounts' = r.mounts
             /\ log' = log \o <<called("create_from", <<afdir, asif_path>>,
                                       create_options)>>
                           \o r.ev
             /\ pc' = "compress"
    /\ UNCHANGED <<cli, fs0, DRY_RUN, VERBOSE, compressed, call, exitCode>>

\* create_asif_image, the branch of an existing artifact directory
Create_from ==
    /\ pc = "create"
    /\ exists(fs, afdir)
    /\ \E o \in UtilityOutcomes("create from", afdir, fs) :
         LET create_options ==
                 CreateFromOptions_with_verbose(
                     CreateFromOptions_with_dry_run(
                         CreateFromOptions_new("ASIF"), is_dry_run),
                     is_verbose)
             r == create_from(afdir, asif_path, create_options, fs, mounts, o)
         IN  /\ ret' = r.ret
             /\ fs' = r.fs
             /\ mounts' = r.mounts
             /\ log' = log \o <<called("create_from", <<afdir, asif_path>>,
                                       create_options)>>
                           \o r.ev
             /\ pc' = IF r.ret.ok THEN "compress" ELSE "created"
    /\ UNCHANGED <<cli, fs0, DRY_RUN, VERBOSE, compressed, call, exitCode>>

\* Apply_compression without the test of the selector
Apply_compression_unconditional ==
    /\ pc = "compress"
    /\ log' = Append(log, recursive_compress_event(
                              afdir, compression_kind(cli.compress)))
    /\ compressed' = recursive_compress(afdir, compressed)
    /\ pc' = "sleep"
    /\ UNCHANGED <<cli, fs0, DRY_RUN, VERBOSE, fs, mounts, ret, call, exitCode>>

\* if compress != "none" { apply_compression(compress, afdir) }
Apply_compression ==
    /\ pc = "compress"
    /\ IF cli.compress # "none"
       THEN /\ log' = Append(log, recursive_compress_event(
                                      afdir, compression_kind(cli.compress)))
            /\ compressed' = recursive_compress(afdir, compressed)
       ELSE UNCHANGED <<log, compressed>>
    /\ pc' = "sleep"
    /\ UNCHANGED <<cli, fs0, DRY_RUN, VERBOSE, fs, mounts, ret, call, exitCode>>

Sleep ==
    /\ pc = "sleep"
    /\ log' = Append(log, [ev |-> "sleep", secs |-> 3])
    /\ pc' = "resize"
    /\ UNCHANGED <<cli, fs0, DRY_RUN, VERBOSE, fs, mounts, compressed, ret, call, exitCode>>

Resize ==
    /\ pc = "resize"
    /\ \E o \in UtilityOutcomes("resize", asif_path, fs) :
         LET resize_options ==
                 ResizeOptions_with_verbose(
                     ResizeOptions_with_dry_run(
                         ResizeOptions_new(cli.maxsize), is_dry_run),
                     is_verbose)
             r == resize(asif_path, resize_options, fs, mounts, o)
         IN  /\ ret' = r.ret
             /\ fs' = r.fs
             /\ mounts' = r.mounts
             /\ log' = log \o <<called("resize", <<asif_path>>, resize_options)>>
                           \o r.ev
    /\ pc' = "created"
    /\ UNCHANGED <<cli, fs0, DRY_RUN, VERBOSE, compressed, call, exitCode>>

\* Main_created, the error of create_asif_image not looked at
Main_created_ignoring_error ==
    /\ pc = "created"
    /\ pc' = "remove"
    /\ UNCHANGED <<cli, fs0, DRY_RUN, VERBOSE, fs, mounts, compressed, log, ret,
                   call, exitCode>>

\* Main_created that falls through to attach when create_asif_image failed
Main_created_attaching_anyway ==
    /\ pc = "created"
    /\ pc' = IF ~ret.ok THEN "attach" ELSE "remove"
    /\ UNCHANGED <<cli, fs0, DRY_RUN, VERBOSE, fs, mounts, compressed, log, ret,
                   call, exitCode>>

\* if let Err(e) = create_asif_image(..) { exit(1) }
Main_created ==
    /\ pc = "created"
    /\ IF ~ret.ok
       THEN /\ exit(1)
            /\ log' = Append(log, [ev |-> "exit", code |-> 1])
       ELSE /\ pc' = "remove"
            /\ UNCHANGED <<log, exitCode>>
    /\ UNCHANGED <<cli, fs0, DRY_RUN, VERBOSE, fs, mounts, compressed, ret, call>>

\* trash::delete moves an existing path to the trash and fails on one that
\* is not there; unwrap turns the failure into a panic (exit status 101)
trash_delete_outcomes(f, path) ==
    IF exists(f, path) THEN {"ok", "err"} ELSE {"err"}

\* Main_remove that leaves the artifact directory where it is
Main_remove_keeping_directory ==
    /\ pc = "remove"
    /\ IF cli.dry_run
       THEN log' = Append(log, println("[DRY RUN] removing " \o afdir))
       ELSE log' = Append(log, [ev |-> "trash_delete", path |-> afdir, ok |-> TRUE])
    /\ pc' = "attach"
    /\ UNCHANGED <<cli, fs0, DRY_RUN, VERBOSE, fs, mounts, compressed, ret, call,
                   exitCode>>

Main_remove ==
    /\ pc = "remove"
    /\ IF cli.dry_run
       THEN /\ log' = Append(log, println("[DRY RUN] removing " \o afdir))
            /\ pc' = "attach"
            /\ UNCHANGED <<fs, exitCode>>
       ELSE \E t \in trash_delete_outcomes(fs, afdir) :
              /\ log' = log \o <<[ev |-> "trash_delete", path |-> afdir,
                                  ok |-> (t = "ok")]>>
                            \o (IF t = "ok" THEN <<>>
                                ELSE <<[ev |-> "exit", code |-> 101]>>)
              /\ IF t = "ok"
                 THEN /\ fs' = [fs EXCEPT ![afdir] = "absent"]
                      /\ pc' = "attach"
                      /\ UNCHANGED exitCode
                 ELSE /\ exit(101)
                      /\ UNCHANGED fs
    /\ UNCHANGED <<cli, fs0, DRY_RUN, VERBOSE, mounts, compressed, ret, call>>

Main_attach ==
    /\ pc = "attach"
    /\ \E o \in UtilityOutcomes("attach", asif_path, fs) :
         LET options ==
                 AttachOptions_with_mount_point(
                     AttachOptions_with_verbose(
                         AttachOptions_with_dry_run(AttachOptions_new, cli.dry_run),
                         cli.verbose),
                     afdir)
             r == attach(asif_path, options, fs, mounts, o)
         IN  /\ ret' = r.ret
             /\ fs' = r.fs
             /\ mounts' = r.mounts
             /\ IF ~r.ret.ok
                THEN /\ exit(1)
                     /\ log' = log \o <<called("attach", <<asif_path>>, options)>>
                                   \o r.ev \o <<[ev |-> "exit", code |-> 1]>>
                ELSE /\ pc' = "final_compress"
                     /\ log' = log \o <<called("attach", <<asif_path>>, options)>>
                                   \o r.ev
                     /\ UNCHANGED exitCode
    /\ UNCHANGED <<cli, fs0, DRY_RUN, VERBOSE, compressed, call>>

\* Main_final_compress made to follow the --compress selector
Main_final_compress_if_selected ==
    /\ pc = "final_compress"
    /\ IF cli.compress # "none"
       THEN /\ log' = log \o <<recursive_compress_event(
                                   asif_path, compression_kind(cli.compress)),
                               [ev |-> "exit", code |-> 0]>>
            /\ compressed' = recursive_compress(asif_path, compressed)
       ELSE /\ log' = Append(log, [ev |-> "exit", code |-> 0])
            /\ UNCHANGED compressed
    /\ exit(0)
    /\ UNCHANGED <<cli, fs0, DRY_RUN, VERBOSE, fs, mounts, ret, call>>

\* the closing FileCompressor::recursive_compress over the image path
Main_final_compress ==
    /\ pc = "final_compress"
    /\ log' = log \o <<recursive_compress_event(asif_path, "Lzfse"),
                       [ev |-> "exit", code |-> 0]>>
    /\ compressed' = recursive_compress(asif_path, compressed)
    /\ exit(0)
    /\ UNCHANGED <<cli, fs0, DRY_RUN, VERBOSE, fs, mounts, ret, call>>

Clis ==
    [afdir : {None} \cup {Some(d) : d \in ArtifactDirs},
     compress : CompressSelectors,
     maxsize : SizeStrings,
     dry_run : BOOLEAN,
     verbose : BOOLEAN]

FileSystemStates ==
    {f \in [Paths -> {"absent", "tree", "image"}] :
        \A d \in ArtifactDirs : /\ f[d] \in {"absent", "tree"}
                                /\ f[d \o ".asif"] \in {"absent", "image"}}

NoResult == [pending |-> TRUE]
NoCall == [op |-> "none"]

Init ==
    /\ cli \in Clis
    /\ DRY_RUN = None
    /\ VERBOSE = None
    /\ fs \in FileSystemStates
    /\ fs0 = fs
    /\ mounts = {}
    /\ compressed = {}
    /\ log = <<>>
    /\ pc = "main"
    /\ ret = NoResult
    /\ call = NoCall
    /\ exitCode = None

Next ==
    \/ Main_parse
    \/ Main_compat
    \/ Main_afdir
    \/ Create_blank
    \/ Create_from
    \/ Apply_compression
    \/ Sleep
    \/ Resize
    \/ Main_created
    \/ Main_remove
    \/ Main_attach
    \/ Main_final_compress

Spec == Init /\ [][Next]_vars

----------------------------------------------------------------------------
(* One call of a public adapter function (lib.rs re-exports diskimage)     *)

AttachOptionsSet ==
    [mount_point : {None} \cup {Some(p) : p \in Paths},
     readonly : BOOLEAN, nobrowse : BOOLEAN, verbose : BOOLEAN, dry_run : BOOLEAN]

CreateBlankOptionsSet ==
    [size : SizeStrings, fs : FileSystems, format : Formats,
     dry_run : BOOLEAN, verbose : BOOLEAN]

CreateFromOptionsSet == [format : Formats, dry_run : BOOLEAN, verbose : BOOLEAN]

ResizeOptionsSet == [size : SizeStrings, dry_run : BOOLEAN, verbose : BOOLEAN]

\* the call and its effects
returned(op, args, options, r) ==
    /\ pc' = "returned"
    /\ call' = [op |-> op, args |-> args, options |-> options]
    /\ ret' = r.ret
    /\ fs' = r.fs
    /\ mounts' = r.mounts
    /\ log' = log \o r.ev
    /\ UNCHANGED <<cli, fs0, DRY_RUN, VERBOSE, compressed, exitCode>>

Api_attach ==
    /\ pc = "api"
    /\ \E image_path \in Paths, options \in AttachOptionsSet :
         \E o \in UtilityOutcomes("attach", image_path, fs) :
            returned("attach", <<image_path>>, options,
                     attach(image_path, options, fs, mounts, o))

Api_create_blank ==
    /\ pc = "api"
    /\ \E image_path \in Paths, options \in CreateBlankOptionsSet :
         \E o \in UtilityOutcomes("create blank", image_path, fs) :
            returned("create_blank", <<image_path>>, options,
                     create_blank(image_path, options, fs, mounts, o))

Api_create_from ==
    /\ pc = "api"
    /\ \E source \in Paths, dest \in Paths, options \in CreateFromOptionsSet :
         \E o \in UtilityOutcomes("create from", source, fs) :
            returned("create_from", <<source, dest>>, options,
                     create_from(source, dest, options, fs, mounts, o))

Api_resize ==
    /\ pc = "api"
    /\ \E image_path \in Paths, options \in ResizeOptionsSet :
         \E o \in UtilityOutcomes("resize", image_path, fs) :
            returned("resize", <<image_path>>, options,
                     resize(image_path, options, fs, mounts, o))

Api_detach ==
    /\ pc = "api"
    /\ \E mount_point \in Paths :
         \E o \in UtilityOutcomes("unmount", mount_point, fs) :
            returned("detach", <<mount_point>>, [none |-> TRUE],
                     detach(mount_point, fs, mounts, o))

\* a call that touches nothing outside its arguments
pure(value) == [ret |-> Ok(value), fs |-> fs, mounts |-> mounts, ev |-> <<>>]

\* to_string of a Format or a FileSystem
Api_to_string ==
    /\ pc = "api"
    /\ \/ \E f \in Formats :
            returned("to_string", <<"Format", f>>, [none |-> TRUE],
                     pure(FormatDisplay(f)))
       \/ \E f \in FileSystems :
            returned("to_string", <<"FileSystem", f>>, [none |-> TRUE],
                     pure(FileSystemDisplay(f)))

\* Default::default() and new(..) of the option records
Api_construct ==
    /\ pc = "api"
    /\ \/ returned("construct", <<"AttachOptions::default">>, [none |-> TRUE],
                   pure(AttachOptions_default))
       \/ returned("construct", <<"AttachOptions::new">>, [none |-> TRUE],
                   pure(AttachOptions_new))
       \/ returned("construct", <<"CreateBlankOptions::default">>, [none |-> TRUE],
                   pure(CreateBlankOptions_default))
       \/ returned("construct", <<"CreateFromOptions::default">>, [none |-> TRUE],
                   pure(CreateFromOptions_default))
       \/ \E size \in SizeStrings, filesystem \in FileSystems, format \in Formats :
            returned("construct", <<"CreateBlankOptions::new">>,
                     [size |-> size, fs |-> filesystem, format |-> format],
                     pure(CreateBlankOptions_new(size, filesystem, format)))
       \/ \E format \in Formats :
            returned("construct", <<"CreateFromOptions::new">>, [format |-> format],
                     pure(CreateFromOptions_new(format)))
       \/ \E size \in SizeStrings :
            returned("construct", <<"ResizeOptions::new">>, [size |-> size],
                     pure(ResizeOptions_new(size)))

\* the builder methods of each option record
Mutators(type) ==
    LET flags == {[name |-> "with_dry_run", flag |-> b] : b \in BOOLEAN}
                   \cup {[name |-> "with_verbose", flag |-> b] : b \in BOOLEAN}
    IN  IF type = "AttachOptions"
        THEN flags \cup {[name |-> "with_mount_point", path |-> p] : p \in Paths}
                   \cup {[name |-> "readonly"], [name |-> "nobrowse"],
                         [name |-> "verbose"]}
        ELSE flags

OptionsOf(type) ==
    CASE type = "AttachOptions" -> AttachOptionsSet
      [] type = "CreateBlankOptions" -> CreateBlankOptionsSet
      [] type = "CreateFromOptions" -> CreateFromOptionsSet
      [] type = "ResizeOptions" -> ResizeOptionsSet

OptionTypes ==
    {"AttachOptions", "CreateBlankOptions", "CreateFromOptions", "ResizeOptions"}

mutate(type, m, self) ==
    CASE type = "AttachOptions" /\ m.name = "with_mount_point" ->
            AttachOptions_with_mount_point(self, m.path)
      [] type = "AttachOptions" /\ m.name = "readonly" -> AttachOptions_readonly(self)
      [] type = "AttachOptions" /\ m.name = "nobrowse" -> AttachOptions_nobrowse(self)
      [] type = "AttachOptions" /\ m.name = "verbose" -> AttachOptions_verbose(self)
      [] type = "AttachOptions" /\ m.name = "with_verbose" ->
            AttachOptions_with_verbose(self, m.flag)
      [] type = "AttachOptions" /\ m.name = "with_dry_run" ->
            AttachOptions_with_dry_run(self, m.flag)
      [] type = "CreateBlankOptions" /\ m.name = "with_dry_run" ->
            CreateBlankOptions_with_dry_run(self, m.flag)
      [] type = "CreateBlankOptions" /\ m.name = "with_verbose" ->
            CreateBlankOptions_with_verbose(self, m.flag)
      [] type = "CreateFromOptions" /\ m.name = "with_dry_run" ->
            CreateFromOptions_with_dry_run(self, m.flag)
      [] type = "CreateFromOptions" /\ m.name = "with_verbose" ->
            CreateFromOptions_with_verbose(self, m.flag)
      [] type = "ResizeOptions" /\ m.name = "with_dry_run" ->
            ResizeOptions_with_dry_run(self, m.flag)
      [] type = "ResizeOptions" /\ m.name = "with_verbose" ->
            ResizeOptions_with_verbose(self, m.flag)

\* a chain of builder calls, first to last
RECURSIVE mutate_all(_, _, _)
mutate_all(type, ms, self) ==
    IF Len(ms) = 0 THEN self
    ELSE mutate_all(type, Tail(ms), mutate(type, Head(ms), self))

\* one or two chained builder calls on an option record
Api_mutate ==
    /\ pc = "api"
    /\ \E type \in OptionTypes :
         \E self \in OptionsOf(type), m1 \in Mutators(type) :
            \/ returned("mutate", <<type>>, [self |-> self, mutators |-> <<m1>>],
                        pure(mutate_all(type, <<m1>>, self)))
            \/ \E m2 \in Mutators(type) :
                 returned("mutate", <<type>>,
                          [self |-> self, mutators |-> <<m1, m2>>],
                          pure(mutate_all(type, <<m1, m2>>, self)))

AdapterInit ==
    /\ cli = [afdir |-> None, compress |-> "none", maxsize |-> "",
              dry_run |-> FALSE, verbose |-> FALSE]
    /\ DRY_RUN = None
    /\ VERBOSE = None
    /\ fs \in [Paths -> {"absent", "tree", "image"}]
    /\ fs0 = fs
    /\ mounts = {}
    /\ compressed = {}
    /\ log = <<>>
    /\ pc = "api"
    /\ ret = NoResult
    /\ call = NoCall
    /\ exitCode = None

AdapterNext ==
    \/ Api_attach
    \/ Api_create_blank
    \/ Api_create_from
    \/ Api_resize
    \/ Api_detach
    \/ Api_to_string
    \/ Api_construct
    \/ Api_mutate

AdapterSpec == AdapterInit /\ [][AdapterNext]_vars

----------------------------------------------------------------------------
(* Reading the log *)

Select(kind) == SelectSeq(log, LAMBDA e : e.ev = kind)

Calls == Select("call")
CallsOf(op) == SelectSeq(log, LAMBDA e : e.ev = "call" /\ e.op = op)
LastCall == Calls[Len(Calls)]

Spawns == Select("spawn")
CompressionsOf(path) ==
    SelectSeq(log, LAMBDA e : e.ev = "recursive_compress" /\ e.path = path)

\* position of the first event that satisfies Test, 0 if there is none
FirstIndex(Test(_)) ==
    IF \E i \in 1..Len(log) : Test(log[i])
    THEN CHOOSE i \in 1..Len(log) :
            Test(log[i]) /\ \A j \in 1..(i - 1) : ~Test(log[j])
    ELSE 0

Terminated == pc = "exited"

----------------------------------------------------------------------------
(* Claims *)

CreateOps == {"create_blank", "create_from", "resize"}

\* the last adapter call was create-blank, create-from or resize and it failed
CreateFailed ==
    /\ Len(Calls) > 0
    /\ LastCall.op \in CreateOps
    /\ ~ret.ok
    /\ fs0[asif_path] = "absent"

C1_Aborted ==
    CreateFailed =>
        /\ pc \in {"created", "exited"}
        /\ fs[afdir] = fs0[afdir]
        /\ Len(Select("trash_delete")) = 0
        /\ Len(CallsOf("attach")) = 0
        /\ Len(CompressionsOf(asif_path)) = 0
        /\ log[Len(log)].ev \in {"call", "spawn", "exit"}
        /\ Terminated => exitCode = Some(1)

C1_Abort ==
    (CreateFailed /\ pc = "created") =>
        /\ pc' = "exited"
        /\ exitCode' = Some(1)
        /\ fs' = fs
        /\ mounts' = mounts
        /\ compressed' = compressed
        /\ log' = Append(log, [ev |-> "exit", code |-> 1])

\* C1: when the image did not exist at start and create-blank, create-from
\* or resize fails, the very next step of the run is exit(1): the artifact
\* directory is not removed, attach is not called, the final compression
\* pass does not run and nothing touches the partially created image.
C1_CreateFailureAborts == []C1_Aborted /\ [][C1_Abort]_vars

\* a run that stopped with status 1 on a failed resize, the image left behind
C1_Witness ==
    /\ Terminated
    /\ CreateFailed
    /\ LastCall.op = "resize"
    /\ fs[asif_path] = "image"
    /\ exitCode = Some(1)

\* the steps of the run in order: adapter calls, utility processes,
\* compression passes, the sleep and the removal
StepName(e) ==
    CASE e.ev = "call" -> e.op
      [] e.ev = "spawn" -> "diskutil " \o e.argv[3]
      [] e.ev = "recursive_compress" -> "compress " \o e.path
      [] e.ev = "sleep" -> "sleep"
      [] e.ev = "trash_delete" -> "remove " \o e.path
      [] OTHER -> e.ev

RECURSIVE StepNames(_)
StepNames(events) ==
    IF Len(events) = 0 THEN <<>>
    ELSE <<StepName(Head(events))>> \o StepNames(Tail(events))

Steps ==
    StepNames(SelectSeq(log, LAMBDA e : e.ev \notin {"println", "exit"}))

AllSpawnsSucceeded ==
    \A i \in 1..Len(Spawns) : Spawns[i].launched /\ Spawns[i].code = 0

ScenarioA ==
    /\ cli.afdir.some
    /\ ~cli.dry_run
    /\ fs0[afdir] = "absent"
    /\ fs0[asif_path] = "absent"
    /\ Len(Spawns) > 0
    /\ AllSpawnsSucceeded

\* C2: scenario A (no artifact directory, no image, no dry run, the utility
\* succeeds): create-blank with APFS, ASIF and maxsize, no resize, no
\* compression of the artifact directory, and then attach at the artifact
\* directory path.
C2_ScenarioA_ReachesAttach ==
    (Terminated /\ ScenarioA) =>
        /\ Calls[1] = called("create_blank", <<asif_path>>,
                             [size |-> cli.maxsize, fs |-> "APFS", format |-> "ASIF",
                              dry_run |-> FALSE, verbose |-> cli.verbose])
        /\ Len(CallsOf("resize")) = 0
        /\ Len(CompressionsOf(afdir)) = 0
        /\ Len(CallsOf("attach")) = 1
        /\ CallsOf("attach")[1].options.mount_point = Some(afdir)

ScenarioB ==
    /\ cli.afdir.some
    /\ ~cli.dry_run
    /\ fs0[afdir] = "tree"
    /\ fs0[asif_path] = "absent"
    /\ Terminated
    /\ exitCode = Some(0)

\* C3: scenario B (artifact directory present, no image, no dry run, every
\* step succeeds): create-from(ASIF), compression of the directory unless
\* the selector is "none", the 3 second sleep, resize to maxsize, removal of
\* the directory, attach at the directory path, final compression of the
\* image path, in exactly this order, each utility process finished before
\* the next step.
C3_ScenarioB_Order ==
    ScenarioB =>
        /\ Steps =
             <<"create_from", "diskutil create">>
               \o (IF cli.compress # "none" THEN <<"compress " \o afdir>> ELSE <<>>)
               \o <<"sleep", "resize", "diskutil resize", "remove " \o afdir,
                    "attach", "create_dir_all", "diskutil attach",
                    "compress " \o asif_path>>
        /\ CallsOf("create_from")[1].args = <<afdir, asif_path>>
        /\ CallsOf("create_from")[1].options.format = "ASIF"
        /\ Spawns[1].argv[4] = "from"
        /\ Select("sleep")[1].secs = 3
        /\ CallsOf("resize")[1].args = <<asif_path>>
        /\ CallsOf("resize")[1].options.size = cli.maxsize
        /\ CallsOf("attach")[1].args = <<asif_path>>
        /\ CallsOf("attach")[1].options.mount_point = Some(afdir)
        /\ AllSpawnsSucceeded

C3_Witness ==
    /\ ScenarioB
    /\ cli.compress = "lzfse"
    /\ Len(CompressionsOf(afdir)) = 1
    /\ fs[asif_path] = "image"
    /\ mounts # {}

\* C4: with dry-run set nothing is performed: no utility process, no
\* directory created or removed, no compression pass, the file system as it
\* was at start.
C4_DryRunPerformsNothing ==
    cli.dry_run =>
        /\ Len(Spawns) = 0
        /\ Len(Select("create_dir_all")) = 0
        /\ Len(Select("trash_delete")) = 0
        /\ Len(Select("recursive_compress")) = 0
        /\ compressed = {}
        /\ fs = fs0

ImageExisted == cli.afdir.some /\ fs0[asif_path] = "image"

\* C5: when the image exists at start there is no create-blank, create-from
\* or resize call, no compression and no removal of the artifact directory;
\* the first adapter call is attach of the image at the artifact directory
\* path with the dry-run and verbose flags of the command line.
C5_ExistingImageOnlyAttached ==
    ImageExisted =>
        /\ \A op \in CreateOps : Len(CallsOf(op)) = 0
        /\ Len(CompressionsOf(afdir)) = 0
        /\ Len(Select("trash_delete")) = 0
        /\ pc \in {"main", "compat", "afdir", "attach", "final_compress", "exited"}
        /\ Len(Calls) > 0 =>
              Calls[1] = called("attach", <<asif_path>>,
                                [mount_point |-> Some(afdir), readonly |-> FALSE,
                                 nobrowse |-> FALSE, verbose |-> cli.verbose,
                                 dry_run |-> cli.dry_run])
        /\ Len(Spawns) > 0 => Spawns[1].argv[3] = "attach"
        /\ (Terminated /\ exitCode = Some(0)) => Len(Calls) = 1

C5_Witness ==
    /\ ImageExisted
    /\ fs0[afdir] = "tree"
    /\ Terminated
    /\ exitCode = Some(0)
    /\ Len(CallsOf("attach")) = 1
    /\ fs[afdir] = "tree"

AttachSucceeded ==
    /\ Len(Calls) > 0
    /\ LastCall.op = "attach"
    /\ ret.ok

starts_with(s, prefix) ==
    /\ Len(s) >= Len(prefix)
    /\ SubSeq(s, 1, Len(prefix)) = prefix

Returned(op) == pc = "returned" /\ call.op = op

\* C7: attach with dry_run = true creates no directory and starts no
\* process, with or without a mount point, existing or not, and returns
\* Ok with the dry-run echo of the command.
C7_AttachDryRunInert ==
    (Returned("attach") /\ call.options.dry_run) =>
        /\ fs = fs0
        /\ mounts = {}
        /\ Len(Select("create_dir_all")) = 0
        /\ Len(Spawns) = 0
        /\ ret.ok
        /\ starts_with(ret.val, "[DRY RUN] Command: \"diskutil\" \"image\" \"attach\"")
        /\ ends_with(ret.val, "\"" \o call.args[1] \o "\"")

C7_Witness ==
    /\ Returned("attach")
    /\ call.options.dry_run
    /\ call.options.mount_point.some
    /\ ~exists(fs0, call.options.mount_point.v)
    /\ ret.ok

AttachAtMissingMountPoint ==
    /\ Returned("attach")
    /\ ~call.options.dry_run
    /\ call.options.mount_point.some
    /\ ~exists(fs0, call.options.mount_point.v)

\* C8 as stated: attach with dry_run = false at a mount point that does not
\* exist creates the directory and then starts the utility exactly once.
C8_Original_DirThenOneSpawn ==
    AttachAtMissingMountPoint =>
        /\ Len(log) = 2
        /\ log[1].ev = "create_dir_all"
        /\ log[2].ev = "spawn"
        /\ exists(fs, call.options.mount_point.v)

\* C8: attach with dry_run = false at a mount point that does not exist
\* first tries to create the directory; when that succeeds the utility is
\* started exactly once, when it fails attach returns CommandFailed and the
\* utility is not started.  An attach process with a mount point is only
\* ever started with the mount point on disk, and an existing mount point
\* is not created.
C8_DirBeforeSpawn ==
    (Returned("attach") /\ ~call.options.dry_run /\ call.options.mount_point.some) =>
        LET mp == call.options.mount_point.v
        IN  /\ IF ~exists(fs0, mp)
               THEN /\ log[1].ev = "create_dir_all"
                    /\ log[1].path = mp
                    /\ IF log[1].ok
                       THEN /\ Len(log) = 2
                            /\ log[2].ev = "spawn"
                            /\ fs = [fs0 EXCEPT ![mp] = "emptydir"]
                       ELSE /\ Len(log) = 1
                            /\ ~ret.ok
                            /\ ret.err.kind = "CommandFailed"
                            /\ fs = fs0
               ELSE /\ Len(log) = 1
                    /\ log[1].ev = "spawn"
                    /\ fs = fs0
            /\ Len(Spawns) > 0 =>
                  /\ exists(fs, mp)
                  /\ Spawns[1].argv[4] = "--mountPoint"
                  /\ Spawns[1].argv[5] = mp

C8_Witness ==
    /\ AttachAtMissingMountPoint
    /\ Len(Spawns) = 1
    /\ log[1].ev = "create_dir_all"
    /\ fs[call.options.mount_point.v] = "emptydir"

SizeRejected ==
    /\ pc = "returned"
    /\ call.op \in {"create_blank", "resize"}
    /\ ~is_valid_size(call.options.size)

\* C9: create-blank and resize with a size the validator rejects return
\* InvalidSize with that size and do nothing else, with dry_run set or not
\* and with the path present or not.
C9_InvalidSizeFirst ==
    SizeRejected =>
        /\ ret = Err(InvalidSize(call.options.size))
        /\ log = <<>>
        /\ fs = fs0
        /\ mounts = {}

C9_Witness ==
    /\ SizeRejected
    /\ call.op = "resize"
    /\ call.options.dry_run
    /\ ~exists(fs0, call.args[1])
    /\ ~ret.ok
    /\ ret.err.kind = "InvalidSize"

\* C10: create-from with a missing source and resize (valid size) with a
\* missing image return InvalidPath without starting the utility when
\* dry_run = false, and return Ok with the echo of the command, existence
\* unchecked and no process started, when dry_run = true.
C10_PathCheckedOnlyWhenReal ==
    /\ (Returned("create_from") /\ ~exists(fs0, call.args[1])) =>
          /\ Len(Spawns) = 0
          /\ fs = fs0
          /\ IF call.options.dry_run
             THEN ret = Ok("[DRY RUN] Command: diskutil image create from --format "
                             \o call.options.format \o " " \o call.args[1]
                             \o " " \o call.args[2])
             ELSE ret = Err(InvalidPath(call.args[1]))
    /\ (Returned("resize") /\ is_valid_size(call.options.size)
          /\ ~exists(fs0, call.args[1])) =>
          /\ Len(Spawns) = 0
          /\ fs = fs0
          /\ IF call.options.dry_run
             THEN ret = Ok("[DRY RUN] Command: diskutil image resize --size "
                             \o call.options.size \o " " \o call.args[1])
             ELSE ret = Err(InvalidPath(call.args[1]))

C10_Witness ==
    /\ Returned("create_from")
    /\ ~exists(fs0, call.args[1])
    /\ call.options.dry_run
    /\ ret.ok

\* C11: once attach, create-blank, create-from, resize or detach has
\* started the utility, its result is the utility's outcome and nothing
\* else: DiskutilNotFound when it could not be launched, CommandFailed with
\* the standard error text on a non-zero exit, Ok with the standard output
\* text on exit 0.
C11_ResultIsUtilityOutcome ==
    (pc = "returned" /\ Len(Spawns) > 0) =>
        /\ call.op \in {"attach", "create_blank", "create_from", "resize", "detach"}
        /\ Len(Spawns) = 1
        /\ log[Len(log)] = Spawns[1]
        /\ IF ~Spawns[1].launched
           THEN ret = [ok |-> FALSE, err |-> [kind |-> "DiskutilNotFound"]]
           ELSE IF Spawns[1].code # 0
           THEN ret = [ok |-> FALSE,
                       err |-> [kind |-> "CommandFailed", msg |-> Spawns[1].stderr]]
           ELSE ret = [ok |-> TRUE, val |-> Spawns[1].stdout]

C11_Witness ==
    /\ Returned("detach")
    /\ Len(Spawns) = 1
    /\ Spawns[1].launched
    /\ Spawns[1].code # 0
    /\ ret = [ok |-> FALSE, err |-> [kind |-> "CommandFailed", msg |-> "denied"]]

----------------------------------------------------------------------------
(* The size validator on its own (tests::test_size_validation)             *)

\* the characters and the strings the validator is tried on
ValidatorAlphabet ==
    {"0", "9", "b", "B", "k", "K", "m", "M", "g", "G", "t", "T", "x", "-", " "}

RECURSIVE ValidatorStringsUpTo(_)
ValidatorStringsUpTo(n) ==
    IF n = 0 THEN {""}
    ELSE LET shorter == ValidatorStringsUpTo(n - 1)
         IN shorter \cup {s \o c : s \in shorter, c \in ValidatorAlphabet}

SizeExamples == {"5GB", "100mb", "1024", "invalid"}

ValidatorInputs == ValidatorStringsUpTo(MaxSizeLen) \cup SizeExamples

Api_is_valid_size ==
    /\ pc = "size"
    /\ pc' = "returned"
    /\ ret' = Ok(is_valid_size(call.args[1]))
    /\ UNCHANGED <<cli, fs0, DRY_RUN, VERBOSE, fs, mounts, compressed, log, call,
                   exitCode>>

ValidatorInit ==
    /\ cli = [afdir |-> None, compress |-> "none", maxsize |-> "",
              dry_run |-> FALSE, verbose |-> FALSE]
    /\ DRY_RUN = None
    /\ VERBOSE = None
    /\ fs = [p \in Paths |-> "absent"]
    /\ fs0 = fs
    /\ mounts = {}
    /\ compressed = {}
    /\ log = <<>>
    /\ pc = "size"
    /\ ret = NoResult
    /\ \E size \in ValidatorInputs :
         call = [op |-> "is_valid_size", args |-> <<size>>]
    /\ exitCode = None

ValidatorNext == Api_is_valid_size

ValidatorSpec == ValidatorInit /\ [][ValidatorNext]_vars

\* the nine suffixes in every spelling of upper and lower case
SuffixSpellings ==
    {"b", "B", "k", "K", "m", "M", "g", "G", "t", "T",
     "kb", "kB", "Kb", "KB", "mb", "mB", "Mb", "MB",
     "gb", "gB", "Gb", "GB", "tb", "tB", "Tb", "TB"}

DecimalDigits == {"0", "1", "2", "3", "4", "5", "6", "7", "8", "9"}

\* C12: the validator answers true exactly for the strings that end,
\* whatever the case, in one of b, kb, mb, gb, tb, k, m, g, t or that have no
\* character other than a decimal digit, and false for every other string.
C12_ValidatorExact ==
    Returned("is_valid_size") =>
        LET size == call.args[1]
            suffixed ==
                \E suffix \in SuffixSpellings :
                    /\ Len(size) >= Len(suffix)
                    /\ SubSeq(size, Len(size) - Len(suffix) + 1, Len(size)) = suffix
            digits == \A i \in 1..Len(size) : SubSeq(size, i, i) \in DecimalDigits
        IN  /\ ret.val = (suffixed \/ digits)
            /\ size \in {"5GB", "100mb", "1024"} => ret.val
            /\ size = "invalid" => ~ret.val

C12_Witness ==
    /\ Returned("is_valid_size")
    /\ call.args[1] = "5GB"
    /\ ret.val

IsDirCompression(e) == e.ev = "recursive_compress" /\ e.path = afdir
IsCallOf(e, op) == e.ev = "call" /\ e.op = op

\* C13: the artifact directory is compressed only in the create-from
\* branch, only with a selector other than "none", after create-from has
\* succeeded and before resize is called; the create-blank branch neither
\* resizes nor compresses.  A selector that is none of lzfse, lzvn, zlib
\* compresses with the default algorithm and the run goes on to resize.
C13_DirCompressionPlacement ==
    IF ~cli.afdir.some THEN Len(Select("recursive_compress")) = 0
    ELSE LET comp == CompressionsOf(afdir)
             iComp == FirstIndex(LAMBDA e : IsDirCompression(e))
             iFrom == FirstIndex(LAMBDA e : IsCallOf(e, "create_from"))
             iBlank == FirstIndex(LAMBDA e : IsCallOf(e, "create_blank"))
             iResize == FirstIndex(LAMBDA e : IsCallOf(e, "resize"))
         IN  /\ Len(comp) <= 1
             /\ Len(comp) = 1 =>
                   /\ cli.compress # "none"
                   /\ iBlank = 0
                   /\ iFrom > 0
                   /\ iComp = iFrom + 2
                   /\ log[iComp - 1].ev \in {"spawn", "println"}
                   /\ log[iComp - 1].ev = "spawn" =>
                         (log[iComp - 1].launched /\ log[iComp - 1].code = 0)
                   /\ iResize > 0 => iComp < iResize
                   /\ Terminated => iResize > 0
                   /\ comp[1].kind =
                        (CASE cli.compress = "lzfse" -> "Lzfse"
                           [] cli.compress = "lzvn" -> "Lzvn"
                           [] cli.compress = "zlib" -> "Zlib"
                           [] OTHER -> "default")
             /\ iBlank > 0 => (iResize = 0 /\ iFrom = 0 /\ Len(comp) = 0)
             /\ (iResize > 0 /\ cli.compress # "none") => Len(comp) = 1

C13_Witness ==
    /\ cli.afdir.some
    /\ cli.compress = "brotli"
    /\ Len(CompressionsOf(afdir)) = 1
    /\ CompressionsOf(afdir)[1].kind = "default"
    /\ Len(CallsOf("resize")) = 1
    /\ ~cli.dry_run
    /\ Terminated
    /\ exitCode = Some(0)

\* C14: every run that does not complete the lifecycle ends with exit
\* status 1: unsupported OS version, missing artifact directory argument,
\* failure of create-blank, create-from, resize, of the removal of the
\* artifact directory, or of attach.
C14_IncompleteRunExitsOne ==
    (Terminated /\ exitCode # Some(0)) => exitCode = Some(1)

SpawnsOf(verb) ==
    SelectSeq(log, LAMBDA e :
        /\ e.ev = "spawn"
        /\ IF e.argv[3] = "create" THEN "create " \o e.argv[4] = verb
           ELSE e.argv[3] = verb)

IsFailure(e) ==
    \/ e.ev = "spawn" /\ ~(e.launched /\ e.code = 0)
    \/ e.ev = "trash_delete" /\ ~e.ok
    \/ e.ev = "create_dir_all" /\ ~e.ok

C15_AtMostOnce ==
    /\ \A verb \in {"create blank", "create from", "resize", "attach"} :
          Len(SpawnsOf(verb)) <= 1
    /\ \A op \in {"create_blank", "create_from", "resize", "attach"} :
          Len(CallsOf(op)) <= 1
    /\ Len(SpawnsOf("create blank")) = 0 \/ Len(SpawnsOf("create from")) = 0
    /\ \A i \in 1..Len(log) :
          IsFailure(log[i]) =>
              \A j \in (i + 1)..Len(log) : log[j].ev = "exit"
    /\ (Len(Calls) > 0 /\ ~ret.ok) => pc \in {"created", "exited"}

C15_NothingAfterFailure ==
    (Len(Calls) > 0 /\ ~ret.ok) =>
        /\ Len(log') = Len(log) + 1
        /\ log'[Len(log')].ev = "exit"

\* C15: nothing is retried: in one run each of create blank, create from,
\* resize and attach is started at most once, create blank and create from
\* never both, and after a failure no further adapter call or utility
\* process follows.
C15_NoRetry == []C15_AtMostOnce /\ [][C15_NothingAfterFailure]_vars

C15_Witness ==
    /\ Terminated
    /\ Len(Spawns) = 2
    /\ Len(SpawnsOf("create from")) = 1
    /\ Len(SpawnsOf("resize")) = 1
    /\ IsFailure(Spawns[2])
    /\ exitCode = Some(1)

\* C16: FileSystem APFS, ExFAT, MSDOS, None print as "APFS", "ExFAT",
\* "MS-DOS", "None" and Format RAW, ASIF, UDSB as "RAW", "ASIF", "UDSB";
\* two variants of one type never print alike.
C16_DisplayStrings ==
    Returned("to_string") =>
        LET type == call.args[1]
            variant == call.args[2]
            others == IF type = "Format" THEN Formats \ {variant}
                      ELSE FileSystems \ {variant}
        IN  /\ ret.ok
            /\ type = "FileSystem" =>
                  ret.val = (CASE variant = "APFS" -> "APFS"
                               [] variant = "ExFAT" -> "ExFAT"
                               [] variant = "MSDOS" -> "MS-DOS"
                               [] variant = "None" -> "None")
            /\ type = "Format" =>
                  ret.val = (CASE variant = "RAW" -> "RAW"
                               [] variant = "ASIF" -> "ASIF"
                               [] variant = "UDSB" -> "UDSB")
            /\ \A other \in others :
                  ret.val # (IF type = "Format" THEN FormatDisplay(other)
                             ELSE FileSystemDisplay(other))

C16_Witness ==
    /\ Returned("to_string")
    /\ call.args = <<"FileSystem", "MSDOS">>
    /\ ret.val = "MS-DOS"

\* C17: the default option records are AttachOptions {no mount point, all
\* four flags false}, CreateBlankOptions {"1GB", fs None, ASIF, flags
\* false}, CreateFromOptions {ASIF, flags false}; the records made by the
\* new(..) constructors carry their arguments and dry_run = verbose = false.
C17_DefaultsAndConstructors ==
    Returned("construct") =>
        LET made == ret.val
            how == call.args[1]
        IN  /\ ret.ok
            /\ how \in {"AttachOptions::default", "AttachOptions::new"} =>
                  made = [mount_point |-> [some |-> FALSE], readonly |-> FALSE,
                          nobrowse |-> FALSE, verbose |-> FALSE, dry_run |-> FALSE]
            /\ how = "CreateBlankOptions::default" =>
                  made = [size |-> "1GB", fs |-> "None", format |-> "ASIF",
                          dry_run |-> FALSE, verbose |-> FALSE]
            /\ how = "CreateFromOptions::default" =>
                  made = [format |-> "ASIF", dry_run |-> FALSE, verbose |-> FALSE]
            /\ how = "CreateBlankOptions::new" =>
                  made = [size |-> call.options.size, fs |-> call.options.fs,
                          format |-> call.options.format,
                          dry_run |-> FALSE, verbose |-> FALSE]
            /\ how = "CreateFromOptions::new" =>
                  made = [format |-> call.options.format,
                          dry_run |-> FALSE, verbose |-> FALSE]
            /\ how = "ResizeOptions::new" =>
                  made = [size |-> call.options.size,
                          dry_run |-> FALSE, verbose |-> FALSE]

C17_Witness ==
    /\ Returned("construct")
    /\ call.args[1] = "CreateBlankOptions::default"
    /\ ret.val.size = "1GB"
    /\ ret.val.fs = "None"
    /\ ret.val.format = "ASIF"

\* attach failed in a run without dry-run that created the image itself
AttachFailedAfterCreation ==
    /\ Terminated
    /\ cli.afdir.some
    /\ ~cli.dry_run
    /\ fs0[asif_path] = "absent"
    /\ Len(CallsOf("attach")) = 1
    /\ LastCall.op = "attach"
    /\ ~ret.ok

\* C18: when attach fails in a run without dry-run that created the image,
\* the artifact directory was removed before attach was tried and is not
\* brought back: the run ends with status 1, the original directory is not
\* at the artifact path, nothing is attached there, and nothing follows the
\* failed attach but the exit.
C18_AttachFailureLeavesDirRemoved ==
    AttachFailedAfterCreation =>
        LET iTrash == FirstIndex(LAMBDA e : e.ev = "trash_delete")
            iAttach == FirstIndex(LAMBDA e : IsCallOf(e, "attach"))
        IN  /\ exitCode = Some(1)
            /\ iTrash > 0
            /\ log[iTrash].ok
            /\ log[iTrash].path = afdir
            /\ iTrash < iAttach
            /\ fs0[afdir] = "tree"
            /\ fs[afdir] \in {"absent", "emptydir"}
            /\ mounts = {}
            /\ fs[asif_path] = "image"
            /\ \A j \in (iAttach + 1)..Len(log) :
                  log[j].ev \in {"create_dir_all", "spawn", "exit"}
            /\ log[Len(log)] = [ev |-> "exit", code |-> 1]

C18_Witness ==
    /\ AttachFailedAfterCreation
    /\ fs0[afdir] = "tree"
    /\ fs[afdir] = "emptydir"
    /\ Len(SpawnsOf("attach")) = 1
    /\ exitCode = Some(1)

C19_FlagsSet ==
    /\ pc = "main" => (DRY_RUN = None /\ VERBOSE = None /\ log = <<>>)
    /\ pc \notin {"main", "api", "size", "returned"} =>
          (DRY_RUN = Some(cli.dry_run) /\ VERBOSE = Some(cli.verbose))
    /\ \A i \in 1..Len(log) :
          /\ log[i].ev = "call" =>
                (log[i].options.dry_run = cli.dry_run
                   /\ log[i].options.verbose = cli.verbose)
          /\ log[i].ev = "trash_delete" => ~cli.dry_run
          /\ log[i].ev = "spawn" => ~cli.dry_run
          /\ log[i].ev = "create_dir_all" => ~cli.dry_run
          /\ log[i].ev = "println" => cli.dry_run

C19_FlagsKept ==
    /\ DRY_RUN # None => DRY_RUN' = DRY_RUN
    /\ VERBOSE # None => VERBOSE' = VERBOSE
    /\ DRY_RUN' # DRY_RUN => (pc = "main" /\ log = <<>>)
    /\ VERBOSE' # VERBOSE => (pc = "main" /\ log = <<>>)

MutatorField(m) ==
    CASE m.name = "with_mount_point" -> "mount_point"
      [] m.name = "readonly" -> "readonly"
      [] m.name = "nobrowse" -> "nobrowse"
      [] m.name \in {"verbose", "with_verbose"} -> "verbose"
      [] m.name = "with_dry_run" -> "dry_run"

MutatorValue(m) ==
    CASE m.name = "with_mount_point" -> Some(m.path)
      [] m.name \in {"readonly", "nobrowse", "verbose"} -> TRUE
      [] m.name \in {"with_verbose", "with_dry_run"} -> m.flag

\* C20: a builder mutator of an option record never fails and changes only
\* the field it names, which takes the value it was given, every other field
\* keeping its value; two mutators of different fields give the same record
\* in either order.
C20_MutatorsFrame ==
    Returned("mutate") =>
        LET type == call.args[1]
            self == call.options.self
            ms == call.options.mutators
            result == ret.val
        IN  /\ ret.ok
            /\ fs = fs0 /\ mounts = {} /\ log = <<>>
            /\ DOMAIN result = DOMAIN self
            /\ Len(ms) = 1 =>
                  \A f \in DOMAIN self :
                     result[f] = IF f = MutatorField(ms[1])
                                 THEN MutatorValue(ms[1]) ELSE self[f]
            /\ (Len(ms) = 2 /\ MutatorField(ms[1]) # MutatorField(ms[2])) =>
                  /\ \A f \in DOMAIN self :
                        result[f] = IF f = MutatorField(ms[1]) THEN MutatorValue(ms[1])
                                    ELSE IF f = MutatorField(ms[2])
                                         THEN MutatorValue(ms[2]) ELSE self[f]
                  /\ result = mutate_all(type, <<ms[2], ms[1]>>, self)

C20_Witness ==
    /\ Returned("mutate")
    /\ call.args[1] = "ResizeOptions"
    /\ Len(call.options.mutators) = 2
    /\ call.options.mutators[1].name = "with_verbose"
    /\ call.options.mutators[2].name = "with_dry_run"
    /\ ~call.options.self.verbose /\ ~call.options.self.dry_run
    /\ ret.ok
    /\ ret.val.verbose /\ ret.val.dry_run
    /\ ret.val.size = call.options.self.size

\* the options of an attach call with other readonly and nobrowse fields
ReadonlyNobrowseVariants(options) ==
    {[options EXCEPT !.readonly = r, !.nobrowse = n] : r, n \in BOOLEAN}

\* what a call of attach from the starting state gives under outcome o
AttachFromStart(options, o) == attach(call.args[1], options, fs0, {}, o)

\* the outcomes under which the call that returned behaved as observed
ObservedOutcomes ==
    {o \in UtilityOutcomes("attach", call.args[1], fs0) :
        AttachFromStart(call.options, o)
          = [ret |-> ret, fs |-> fs, mounts |-> mounts, ev |-> log]}

\* C21: readonly and nobrowse have no effect on attach: a call whose options
\* differ from those of the call made only in readonly and/or nobrowse
\* builds the same argument list (image attach, optional --mountPoint
\* <path>, optional --verbose, image path), pre-creates the directory in the
\* same cases, and under the same utility outcome returns the same result
\* with the same effects.
C21_ReadonlyNobrowseIgnored ==
    Returned("attach") =>
        LET image_path == call.args[1]
            options == call.options
            expected == <<"diskutil", "image", "attach">>
                          \o (IF options.mount_point.some
                              THEN <<"--mountPoint", options.mount_point.v>>
                              ELSE <<>>)
                          \o (IF options.verbose THEN <<"--verbose">> ELSE <<>>)
                          \o <<image_path>>
        IN  /\ ObservedOutcomes # {}
            /\ \A i \in 1..Len(log) :
                  log[i].ev = "spawn" => log[i].argv = expected
            /\ \A other \in ReadonlyNobrowseVariants(options) :
                  /\ attach_argv(image_path, other) = expected
                  /\ attach_creates_dir(other, fs0) = attach_creates_dir(options, fs0)
                  /\ \A o \in ObservedOutcomes :
                        AttachFromStart(other, o)
                          = [ret |-> ret, fs |-> fs, mounts |-> mounts, ev |-> log]
                  /\ \A o \in UtilityOutcomes("attach", image_path, fs0) :
                        AttachFromStart(other, o) = AttachFromStart(options, o)

C21_Witness ==
    /\ Returned("attach")
    /\ call.options.readonly /\ call.options.nobrowse
    /\ ~call.options.dry_run /\ ~call.options.verbose
    /\ call.options.mount_point.some
    /\ Len(log) = 2
    /\ log[1].ev = "create_dir_all" /\ log[1].ok
    /\ log[2].ev = "spawn"
    /\ log[2].argv = <<"diskutil", "image", "attach", "--mountPoint",
                       call.options.mount_point.v, call.args[1]>>
    /\ ret.ok

====
